---- MODULE Spec2Model ----
(***************************************************************************)
(* ChannelAgent (internal/agent/channel_agent.go): a synchronous backend   *)
(* (RunningAgent.Send) wrapped as an actor with buffered input, output and *)
(* errors channels, an unbuffered done channel, one dispatcher goroutine   *)
(* (processMessages), one worker goroutine per dequeued message, and a     *)
(* Close guarded by sync.Once.                                             *)
(*                                                                         *)
(* Every goroutine is a process with a program counter; one action is one  *)
(* atomic step of the Go code (a mutex-protected read or write, a select,  *)
(* a close).  An unrecovered panic (send on a closed channel, close of a   *)
(* closed channel) ends the whole Go process: it is recorded in fault and  *)
(* no action is enabled afterwards.                                        *)
(***************************************************************************)
EXTENDS Naturals, Sequences, FiniteSets

\* ------------------------------------------------------------------ bounds
\* NewChannelAgent gives input, output and errors one and the same capacity
\* (100).  The model scales it down and builds the agent either with a tight
\* buffer (1) or with a roomy one (MaxCap, which holds every text sent).
MaxCap == 2
Capacities == {1, MaxCap}
\* Number of Send calls, each by its own caller and with its own text (the
\* texts are 1..MaxMsgs), and number of callers of Close.
MaxMsgs == 2
NumClosers == 1

Closers == 1..NumClosers
\* The dispatcher goroutine, as a caller of Close (defer ca.Close()).
Disp == 0
CloseCallers == Closers \cup {Disp}
Msgs == 1..MaxMsgs
Channels == {"input", "done", "errors", "output"}

VARIABLES
    capacity,   \* the capacity of input, output and errors
    input,      \* ca.input: buffered texts
    output,     \* ca.output: buffered responses
    errors,     \* ca.errors: buffered errors
    chClosed,   \* which of the four channels has been closed
    closed,     \* ca.closed
    closeOnce,  \* ca.closeOnce: "new", "running" (f executing), "done"
    cancelled,  \* ctx.Done() is closed
    wg,         \* the WaitGroup counter of processMessages
    dpc,        \* dispatcher: "idle", "select", "checkClosed", "spawn", "wait", "close"
    dmsg,       \* the message the dispatcher holds (0: none)
    wpc,        \* per message, its worker goroutine's position
    sendPc,     \* per text, its Send call: "idle", "select", "returned", "panicked"
    sendRes,    \* per text, what its Send call returned
    closePc,    \* per Close caller: position inside Close
    fault,      \* "none", or the panic that ended the process
    closes,     \* history: how many times each channel was closed
    outSent,    \* history: per message, responses placed on output for it
    errSent,    \* history: per message, backend errors placed on errors for it
    fullSent,   \* history: "output channel full" errors placed on errors
    atReturn,   \* history: per message, ctx and ca.closed when ra.Send returned
    mu,         \* ca.mu: who holds the RWMutex, and how ("r" or "w")
    faGot       \* per text, what FastAgent.Send returned for it

vars == <<capacity, input, output, errors, chClosed, closed, closeOnce, cancelled, wg,
          dpc, dmsg, wpc, sendPc, sendRes, closePc, fault,
          closes, outSent, errSent, fullSent, atReturn, mu, faGot>>

chanVars == <<capacity, input, output, errors, chClosed, closes>>
dispVars == <<dpc, dmsg>>
sendVars == <<sendPc, sendRes>>
histVars == <<outSent, errSent, fullSent>>

\* ra.Send has not returned yet.
NotReturned == [cancelled |-> FALSE, closed |-> FALSE, returned |-> FALSE]

\* ------------------------------------------------------------------ values
\* Every worker delivers the response to the first text (a goroutine that
\* captures a shared variable instead of taking message as its argument).
ResponseMixed(m) == [kind |-> "response", of |-> 1]

\* What the backend returns for text m, and the error the worker wraps.
Response(m) == [kind |-> "response", of |-> m]
BackendError(m) == [kind |-> "failed to process message", of |-> m]

\* A secondary error that carries the text of the backend error.
OutputFullMisnamed == [kind |-> "failed to process message", of |-> 0]

OutputFull == [kind |-> "output channel full", of |-> 0]

\* FastAgent.Send's results: the zero string a receive from a closed channel
\* yields, and the pair (response, err) it returns; "pending" before it has
\* returned.
ZeroString == [kind |-> "", of |-> 0]
FaPending == [err |-> "pending", response |-> ZeroString]
FaOk(resp) == [err |-> "nil", response |-> resp]
FaErr(e) == [err |-> e, response |-> ZeroString]

Alive == fault = "none"

\* NewChannelAgent: four open, empty channels; nothing started.
Init ==
    /\ capacity \in Capacities
    /\ input = <<>> /\ output = <<>> /\ errors = <<>>
    /\ chClosed = [c \in Channels |-> FALSE]
    /\ closed = FALSE
    /\ closeOnce = "new"
    /\ cancelled = FALSE
    /\ wg = 0
    /\ dpc = "idle" /\ dmsg = 0
    /\ wpc = [m \in Msgs |-> "none"]
    /\ sendPc = [m \in Msgs |-> "idle"]
    /\ sendRes = [m \in Msgs |-> "none"]
    /\ closePc = [c \in CloseCallers |-> "idle"]
    /\ fault = "none"
    /\ closes = [c \in Channels |-> 0]
    /\ outSent = [m \in Msgs |-> 0]
    /\ errSent = [m \in Msgs |-> 0]
    /\ fullSent = 0
    /\ atReturn = [m \in Msgs |-> NotReturned]
    /\ mu = {}
    /\ faGot = [m \in Msgs |-> FaPending]

\* ------------------------------------------------------------ Go's select
\* A select whose send case is ready even when the buffer is full.
SelectSendUnbounded(buf, cap, isClosed, withCtx) ==
    (IF isClosed THEN {"panic"} ELSE {"send"})
    \cup (IF withCtx /\ cancelled THEN {"ctx"} ELSE {})

\* The cases of a select with one send case on a buffered channel and,
\* with withCtx, a receive from ctx.Done(): the runtime picks any ready
\* case; a send case on a closed channel is "ready" and panics; with no
\* case ready the default branch runs.
SelectSend(buf, cap, isClosed, withCtx) ==
    LET ready == (IF isClosed THEN {"panic"}
                  ELSE IF Len(buf) < cap THEN {"send"} ELSE {})
                 \cup (IF withCtx /\ cancelled THEN {"ctx"} ELSE {})
    IN IF ready = {} THEN {"default"} ELSE ready

\* A dispatcher that receives only while no worker is running.
SelectRecvWhenIdle ==
    IF wg > 0 THEN {}
    ELSE (IF cancelled THEN {"ctx"} ELSE {})
         \cup (IF Len(input) > 0 \/ chClosed["input"] THEN {"recv"} ELSE {})

\* A dispatcher loop that only listens to ctx.Done().
SelectRecvCtxOnly == IF cancelled THEN {"ctx"} ELSE {}

\* The dispatcher's blocking select: ctx.Done() or a receive from input
\* (ready when it buffers a text or is closed).
SelectRecv ==
    (IF cancelled THEN {"ctx"} ELSE {})
    \cup (IF Len(input) > 0 \/ chClosed["input"] THEN {"recv"} ELSE {})

\* ---------------------------------------------------------- the controller
\* context.CancelFunc, called by whoever owns ctx.
Cancel ==
    /\ Alive /\ ~cancelled
    /\ cancelled' = TRUE
    /\ UNCHANGED <<chanVars, closed, closeOnce, wg, dispVars, wpc, sendVars,
                   closePc, fault, histVars,
                   atReturn, mu, faGot>>

\* A Start that re-arms the agent by clearing ca.closed.
StartResets ==
    /\ Alive /\ dpc = "idle"
    /\ dpc' = "select"
    /\ closed' = FALSE
    /\ UNCHANGED <<chanVars, closeOnce, cancelled, wg, dmsg, wpc, sendVars,
                   closePc, fault, histVars, atReturn, mu, faGot>>

\* Start: Agent.Run succeeds on a valid config; go ca.processMessages.
Start ==
    /\ Alive /\ dpc = "idle"
    /\ dpc' = "select"
    /\ UNCHANGED <<chanVars, closed, closeOnce, cancelled, wg, dmsg, wpc,
                   sendVars, closePc, fault, histVars,
                   atReturn, mu, faGot>>

\* ------------------------------------------------------------------- Send
\* A Send that skips the check of ca.closed.
SendIgnoresClosed == FALSE

\* Send, lines 139-145: the read of ca.closed under the read lock.
SendSeesClosed == closed

\* Send, lines 148-153: select { case ca.input <- msg: ... default: ... }.
InputSelect == SelectSend(input, capacity, chClosed["input"], FALSE)

\* A caller enters Send with text m and reads ca.closed: it returns
\* "agent is closed", or goes on to the select.
SendCall(m) ==
    /\ Alive /\ sendPc[m] = "idle"
    /\ IF SendSeesClosed
       THEN /\ sendRes' = [sendRes EXCEPT ![m] = "agent is closed"]
            /\ sendPc' = [sendPc EXCEPT ![m] = "returned"]
       ELSE /\ sendRes' = [sendRes EXCEPT ![m] = "pending"]
            /\ sendPc' = [sendPc EXCEPT ![m] = "select"]
    /\ UNCHANGED <<chanVars, closed, closeOnce, cancelled, wg, dispVars, wpc,
                   closePc, fault, histVars,
                   atReturn, mu, faGot>>

\* The non-blocking send on ca.input.
SendSelect(m) ==
    /\ Alive /\ sendPc[m] = "select"
    /\ \E o \in InputSelect :
        /\ input' = IF o = "send" THEN Append(input, m) ELSE input
        /\ sendRes' = [sendRes EXCEPT ![m] =
                         CASE o = "send" -> "ok"
                           [] o = "default" -> "input channel full"
                           [] OTHER -> "panic"]
        /\ sendPc' = [sendPc EXCEPT ![m] =
                         IF o = "panic" THEN "panicked" ELSE "returned"]
        /\ fault' = IF o = "panic" THEN "send on closed channel: input" ELSE fault
    /\ UNCHANGED <<capacity, output, errors, chClosed, closes, closed, closeOnce,
                   cancelled, wg, dispVars, wpc, closePc, histVars,
                   atReturn, mu, faGot>>

\* ------------------------------------------------------------- dispatcher
\* processMessages, lines 58-70: the select of the loop.  On ctx.Done() it
\* sets ca.closed and returns (to the deferred wg.Wait); on a receive it
\* holds the message, or returns when input is closed and drained.
DispSelect ==
    /\ Alive /\ dpc = "select"
    /\ \E o \in SelectRecv :
        IF o = "ctx"
        THEN /\ closed' = TRUE
             /\ dpc' = "wait"
             /\ UNCHANGED <<input, dmsg>>
        ELSE IF Len(input) > 0
        THEN /\ dmsg' = Head(input)
             /\ input' = Tail(input)
             /\ dpc' = "checkClosed"
             /\ UNCHANGED closed
        ELSE /\ dpc' = "wait"
             /\ UNCHANGED <<input, dmsg, closed>>
    /\ UNCHANGED <<capacity, output, errors, chClosed, closes, closeOnce, cancelled, wg,
                   wpc, sendVars, closePc, fault, histVars,
                   atReturn, mu, faGot>>

\* A dispatcher whose re-check reads ctx instead of ca.closed.
DispCheckReadsCtx ==
    /\ Alive /\ dpc = "checkClosed"
    /\ IF cancelled
       THEN dpc' = "wait" /\ dmsg' = 0
       ELSE dpc' = "spawn" /\ UNCHANGED dmsg
    /\ UNCHANGED <<chanVars, closed, closeOnce, cancelled, wg, wpc, sendVars,
                   closePc, fault, histVars, atReturn, mu, faGot>>

\* A dispatcher without the re-check: every dequeued message is spawned.
DispCheckSkipped ==
    /\ Alive /\ dpc = "checkClosed"
    /\ dpc' = "spawn" /\ UNCHANGED dmsg
    /\ UNCHANGED <<chanVars, closed, closeOnce, cancelled, wg, wpc, sendVars,
                   closePc, fault, histVars, atReturn, mu, faGot>>

\* Lines 73-78: the re-check of ca.closed; a closed agent drops the message.
DispCheckClosed ==
    /\ Alive /\ dpc = "checkClosed"
    /\ IF closed
       THEN dpc' = "wait" /\ dmsg' = 0
       ELSE dpc' = "spawn" /\ UNCHANGED dmsg
    /\ UNCHANGED <<chanVars, closed, closeOnce, cancelled, wg, wpc, sendVars,
                   closePc, fault, histVars,
                   atReturn, mu, faGot>>

\* Lines 81-82: wg.Add(1); go func(message).
DispSpawn ==
    /\ Alive /\ dpc = "spawn"
    /\ wg' = wg + 1
    /\ wpc' = [wpc EXCEPT ![dmsg] = "checkCtx"]
    /\ dmsg' = 0
    /\ dpc' = "select"
    /\ UNCHANGED <<chanVars, closed, closeOnce, cancelled, sendVars, closePc,
                   fault, histVars,
                   atReturn, mu, faGot>>

\* A dispatcher that does not wait for its workers.
WaitGroupIgnored == TRUE

\* wg.Wait() returns when the counter is zero.
WaitGroupZero == wg = 0

\* Line 55: defer wg.Wait(), run before the deferred ca.Close().
DispWait ==
    /\ Alive /\ dpc = "wait" /\ WaitGroupZero
    /\ dpc' = "close"
    /\ UNCHANGED <<chanVars, closed, closeOnce, cancelled, wg, dmsg, wpc,
                   sendVars, closePc, fault, histVars,
                   atReturn, mu, faGot>>

\* ----------------------------------------------------------------- worker
\* An error path that never sends.
ErrSelectDrops == {"default"}

\* Lines 95-100 and 121-126: select { case ca.errors <- err: case <-ctx.Done(): default: }.
ErrSelect == SelectSend(errors, capacity, chClosed["errors"], TRUE)

\* A success path that never sends.
OutSelectDrops == {"default"}

\* Lines 114-119: select { case ca.output <- response: case <-ctx.Done(): default: }.
OutSelect == SelectSend(output, capacity, chClosed["output"], TRUE)

\* The moment ra.Send returns to the worker.
Returned == [cancelled |-> cancelled, closed |-> closed, returned |-> TRUE]

\* The record of a worker's return from ra.Send ends with the worker.
Forget(m) ==
    atReturn' = IF wpc'[m] = "done" THEN [atReturn EXCEPT ![m] = NotReturned]
                ELSE atReturn

\* A worker that starts over instead of returning.
FinishRetries(m) ==
    /\ wpc' = [wpc EXCEPT ![m] = "checkCtx"]
    /\ wg' = wg

\* A worker that returns without wg.Done().
FinishNoDone(m) ==
    /\ wpc' = [wpc EXCEPT ![m] = "done"]
    /\ wg' = wg

\* defer wg.Done(), with the goroutine's return.
Finish(m) ==
    /\ wpc' = [wpc EXCEPT ![m] = "done"]
    /\ wg' = wg - 1

\* A worker without the check of ctx before processing.
WorkerSkipsCtx(m) ==
    /\ Alive /\ wpc[m] = "checkCtx"
    /\ wpc' = [wpc EXCEPT ![m] = "raSend"] /\ UNCHANGED wg
    /\ UNCHANGED <<chanVars, closed, closeOnce, cancelled, dispVars, sendVars,
                   closePc, fault, histVars, atReturn, mu, faGot>>

\* Lines 86-90: the check of ctx before processing.
WorkerCheckCtx(m) ==
    /\ Alive /\ wpc[m] = "checkCtx"
    /\ IF cancelled
       THEN Finish(m)
       ELSE wpc' = [wpc EXCEPT ![m] = "raSend"] /\ UNCHANGED wg
    /\ Forget(m)
    /\ UNCHANGED <<mu, faGot>>
    /\ UNCHANGED <<chanVars, closed, closeOnce, cancelled, dispVars, sendVars,
                   closePc, fault, histVars>>

\* RunningAgent.Send, lines 100-104: a cancelled context returns ctx.Err()
\* without calling the backend; otherwise the worker goes on to line 119,
\* the call of llm.Generate.
WorkerRaSend(m) ==
    /\ Alive /\ wpc[m] = "raSend"
    /\ wpc' = [wpc EXCEPT ![m] = IF cancelled THEN "errSelect" ELSE "generate"]
    /\ atReturn' = IF cancelled THEN [atReturn EXCEPT ![m] = Returned]
                   ELSE atReturn
    /\ UNCHANGED <<mu, faGot>>
    /\ UNCHANGED <<chanVars, closed, closeOnce, cancelled, wg, dispVars,
                   sendVars, closePc, fault, histVars>>

\* RunningAgent.Send, lines 119-124: the call of llm.Generate, from its start
\* to its return with a response or an error.  The backend shares no state
\* with the agent, so the call is one step; it may last as long as it likes
\* (the worker stays at "generate" meanwhile).
WorkerGenerate(m) ==
    /\ Alive /\ wpc[m] = "generate"
    /\ \E ok \in BOOLEAN :
        wpc' = [wpc EXCEPT ![m] = IF ok THEN "outCheckCtx" ELSE "errSelect"]
    /\ atReturn' = [atReturn EXCEPT ![m] = Returned]
    /\ UNCHANGED <<mu, faGot>>
    /\ UNCHANGED <<chanVars, closed, closeOnce, cancelled, wg, dispVars,
                   sendVars, closePc, fault, histVars>>

\* Lines 93-102: the error path; no read of ca.closed precedes the send.
WorkerErrSelect(m) ==
    /\ Alive /\ wpc[m] = "errSelect"
    /\ \E o \in ErrSelect :
        /\ errors' = IF o = "send" THEN Append(errors, BackendError(m)) ELSE errors
        /\ errSent' = IF o = "send" THEN [errSent EXCEPT ![m] = @ + 1] ELSE errSent
        /\ IF o = "panic"
           THEN /\ fault' = "send on closed channel: errors"
                /\ UNCHANGED <<wpc, wg>>
           ELSE Finish(m) /\ UNCHANGED fault
    /\ Forget(m)
    /\ UNCHANGED <<mu, faGot>>
    /\ UNCHANGED <<capacity, input, output, chClosed, closes, closed, closeOnce,
                   cancelled, dispVars, sendVars, closePc, outSent, fullSent>>

\* Lines 105-108: the success path first polls ctx.Done().
WorkerOutCheckCtx(m) ==
    /\ Alive /\ wpc[m] = "outCheckCtx"
    /\ IF cancelled
       THEN Finish(m)
       ELSE wpc' = [wpc EXCEPT ![m] = "readClosed"] /\ UNCHANGED wg
    /\ Forget(m)
    /\ UNCHANGED <<mu, faGot>>
    /\ UNCHANGED <<chanVars, closed, closeOnce, cancelled, dispVars, sendVars,
                   closePc, fault, histVars>>

\* Lines 109-113: the read of ca.closed; a closed agent delivers nothing.
WorkerReadClosed(m) ==
    /\ Alive /\ wpc[m] = "readClosed"
    /\ IF closed
       THEN Finish(m)
       ELSE wpc' = [wpc EXCEPT ![m] = "outSelect"] /\ UNCHANGED wg
    /\ Forget(m)
    /\ UNCHANGED <<mu, faGot>>
    /\ UNCHANGED <<chanVars, closed, closeOnce, cancelled, dispVars, sendVars,
                   closePc, fault, histVars>>

\* Lines 114-119: the send of the response; a full output falls through to
\* the inner select.
WorkerOutSelect(m) ==
    /\ Alive /\ wpc[m] = "outSelect"
    /\ \E o \in OutSelect :
        /\ output' = IF o = "send" THEN Append(output, Response(m)) ELSE output
        /\ outSent' = IF o = "send" THEN [outSent EXCEPT ![m] = @ + 1] ELSE outSent
        /\ CASE o = "panic" ->
                  /\ fault' = "send on closed channel: output"
                  /\ UNCHANGED <<wpc, wg>>
             [] o = "default" ->
                  /\ wpc' = [wpc EXCEPT ![m] = "errSelect2"]
                  /\ UNCHANGED <<wg, fault>>
             [] OTHER -> Finish(m) /\ UNCHANGED fault
    /\ Forget(m)
    /\ UNCHANGED <<mu, faGot>>
    /\ UNCHANGED <<capacity, input, errors, chClosed, closes, closed, closeOnce,
                   cancelled, dispVars, sendVars, closePc, errSent, fullSent>>

\* Lines 121-126: the secondary "output channel full" error, best effort.
WorkerErrSelect2(m) ==
    /\ Alive /\ wpc[m] = "errSelect2"
    /\ \E o \in ErrSelect :
        /\ errors' = IF o = "send" THEN Append(errors, OutputFull) ELSE errors
        /\ fullSent' = IF o = "send" THEN fullSent + 1 ELSE fullSent
        /\ IF o = "panic"
           THEN /\ fault' = "send on closed channel: errors"
                /\ UNCHANGED <<wpc, wg>>
           ELSE Finish(m) /\ UNCHANGED fault
    /\ Forget(m)
    /\ UNCHANGED <<mu, faGot>>
    /\ UNCHANGED <<capacity, input, output, chClosed, closes, closed, closeOnce,
                   cancelled, dispVars, sendVars, closePc, outSent, errSent>>

\* ------------------------------------------------------------------ Close
\* A Close whose body is not guarded: every caller runs it.
OnceAdmitsAlways == TRUE

\* sync.Once.Do runs f for the first caller only.
OnceAdmits == closeOnce = "new"

\* close(ch): closing a closed channel panics.
CloseChan(ch) ==
    IF chClosed[ch]
    THEN /\ fault' = "close of closed channel"
         /\ UNCHANGED <<chClosed, closes>>
    ELSE /\ chClosed' = [chClosed EXCEPT ![ch] = TRUE]
         /\ closes' = [closes EXCEPT ![ch] = @ + 1]
         /\ UNCHANGED fault

\* A call of Close enters closeOnce.Do: the first caller runs the body, any
\* other waits for the body to finish.  The dispatcher calls it as its last
\* deferred function.
CloseCall(c) ==
    /\ Alive /\ closePc[c] \in {"idle", "returned"}
    /\ c = Disp => (dpc = "close" /\ closePc[c] = "idle")
    /\ IF OnceAdmits
       THEN /\ closeOnce' = "running"
            /\ closePc' = [closePc EXCEPT ![c] = "setClosed"]
       ELSE /\ closePc' = [closePc EXCEPT ![c] = "onceWait"]
            /\ UNCHANGED closeOnce
    /\ UNCHANGED <<chanVars, closed, cancelled, wg, dispVars, wpc, sendVars,
                   fault, histVars,
                   atReturn, mu, faGot>>

\* A Once.Do that returns at once to a caller that did not run the body.
CloseOnceReturnsEarly(c) ==
    /\ Alive /\ closePc[c] = "onceWait"
    /\ closePc' = [closePc EXCEPT ![c] = "returned"]
    /\ UNCHANGED <<chanVars, closed, closeOnce, cancelled, wg, dispVars, wpc,
                   sendVars, fault, histVars, atReturn, mu, faGot>>

\* Once.Do returns to a caller that did not run the body when the body is done.
CloseOnceReturn(c) ==
    /\ Alive /\ closePc[c] = "onceWait" /\ closeOnce = "done"
    /\ closePc' = [closePc EXCEPT ![c] = "returned"]
    /\ UNCHANGED <<chanVars, closed, closeOnce, cancelled, wg, dispVars, wpc,
                   sendVars, fault, histVars,
                   atReturn, mu, faGot>>

\* A Close that closes the channels without setting ca.closed.
CloseSkipsSetClosed(c) ==
    /\ Alive /\ closePc[c] = "setClosed"
    /\ closePc' = [closePc EXCEPT ![c] = "closeInput"]
    /\ UNCHANGED <<chanVars, closed, closeOnce, cancelled, wg, dispVars, wpc,
                   sendVars, fault, histVars, atReturn, mu, faGot>>

\* Lines 180-182: ca.closed = true under the lock.
CloseSetClosed(c) ==
    /\ Alive /\ closePc[c] = "setClosed"
    /\ closed' = TRUE
    /\ closePc' = [closePc EXCEPT ![c] = "closeInput"]
    /\ UNCHANGED <<chanVars, closeOnce, cancelled, wg, dispVars, wpc, sendVars,
                   fault, histVars,
                   atReturn, mu, faGot>>

\* A Close that leaves ca.input open.
CloseInputSkipped(c) ==
    /\ Alive /\ closePc[c] = "closeInput"
    /\ closePc' = [closePc EXCEPT ![c] = "closeDone"]
    /\ UNCHANGED <<chanVars, closed, closeOnce, cancelled, wg, dispVars, wpc,
                   sendVars, fault, histVars, atReturn, mu, faGot>>

\* Line 187: close(ca.input).
CloseInput(c) ==
    /\ Alive /\ closePc[c] = "closeInput"
    /\ CloseChan("input")
    /\ closePc' = [closePc EXCEPT ![c] = "closeDone"]
    /\ UNCHANGED <<capacity, input, output, errors, closed, closeOnce, cancelled, wg,
                   dispVars, wpc, sendVars, histVars,
                   atReturn, mu, faGot>>

\* Line 188: close(ca.done).
CloseDone(c) ==
    /\ Alive /\ closePc[c] = "closeDone"
    /\ CloseChan("done")
    /\ closePc' = [closePc EXCEPT ![c] = "sleep"]
    /\ UNCHANGED <<capacity, input, output, errors, closed, closeOnce, cancelled, wg,
                   dispVars, wpc, sendVars, histVars,
                   atReturn, mu, faGot>>

\* A body of Close that waits for processMessages to return before it
\* closes errors and output.
SleepUntilDispatcherEnded == dpc = "close" /\ closePc[Disp] = "returned"

\* What the body waits for between closing done and closing errors and
\* output: time.Sleep(100 * time.Millisecond) returns whatever the workers do.
SleepOver == TRUE

\* Line 191: the sleep.
CloseSleep(c) ==
    /\ Alive /\ closePc[c] = "sleep" /\ SleepOver
    /\ closePc' = [closePc EXCEPT ![c] = "closeErrors"]
    /\ UNCHANGED <<chanVars, closed, closeOnce, cancelled, wg, dispVars, wpc,
                   sendVars, fault, histVars,
                   atReturn, mu, faGot>>

\* Line 194: close(ca.errors).
CloseErrors(c) ==
    /\ Alive /\ closePc[c] = "closeErrors"
    /\ CloseChan("errors")
    /\ closePc' = [closePc EXCEPT ![c] = "closeOutput"]
    /\ UNCHANGED <<capacity, input, output, errors, closed, closeOnce, cancelled, wg,
                   dispVars, wpc, sendVars, histVars,
                   atReturn, mu, faGot>>

\* Line 195: close(ca.output); the body ends and Once.Do returns.
CloseOutput(c) ==
    /\ Alive /\ closePc[c] = "closeOutput"
    /\ CloseChan("output")
    /\ closePc' = [closePc EXCEPT ![c] = "returned"]
    /\ closeOnce' = "done"
    /\ UNCHANGED <<capacity, input, output, errors, closed, cancelled, wg, dispVars,
                   wpc, sendVars, histVars,
                   atReturn, mu, faGot>>

\* ------------------------------------------------------------- the caller
\* A receive from Output() that takes a buffered response.
ConsumeOutput ==
    /\ Alive /\ Len(output) > 0
    /\ output' = Tail(output)
    /\ UNCHANGED <<capacity, input, errors, chClosed, closes, closed, closeOnce,
                   cancelled, wg, dispVars, wpc, sendVars, closePc, fault,
                   histVars,
                   atReturn, mu, faGot>>

\* A receive from Errors() that takes a buffered error.
ConsumeErrors ==
    /\ Alive /\ Len(errors) > 0
    /\ errors' = Tail(errors)
    /\ UNCHANGED <<capacity, input, output, chClosed, closes, closed, closeOnce,
                   cancelled, wg, dispVars, wpc, sendVars, closePc, fault,
                   histVars,
                   atReturn, mu, faGot>>

\* ------------------------------------------------------------ the mutex
\* The actions above take each Lock ... Unlock section of ca.mu as one step.
\* The actions below take the same sections in two steps, the acquisition
\* and the access with the release, so that the holders of ca.mu are part of
\* the state.  sync.RWMutex: Lock waits for every holder, RLock for a writer.
Holder(who, id, mode) == [who |-> who, id |-> id, mode |-> mode]
CanLock == mu = {}
CanRLock == \A h \in mu : h.mode = "r"

\* Send, line 139: ca.mu.RLock().
SendRLock(m) ==
    /\ Alive /\ sendPc[m] = "idle" /\ CanRLock
    /\ mu' = mu \cup {Holder("Send", m, "r")}
    /\ sendPc' = [sendPc EXCEPT ![m] = "rlocked"]
    /\ UNCHANGED <<chanVars, closed, closeOnce, cancelled, wg, dispVars, wpc,
                   sendRes, closePc, fault, histVars, atReturn, faGot>>

\* A Send that keeps the read lock until it returns (defer RUnlock).
SendReadKeepsLock(m) ==
    /\ Alive /\ sendPc[m] = "rlocked"
    /\ IF SendSeesClosed
       THEN /\ sendRes' = [sendRes EXCEPT ![m] = "agent is closed"]
            /\ sendPc' = [sendPc EXCEPT ![m] = "returned"]
       ELSE /\ sendRes' = [sendRes EXCEPT ![m] = "pending"]
            /\ sendPc' = [sendPc EXCEPT ![m] = "select"]
    /\ UNCHANGED <<chanVars, closed, closeOnce, cancelled, wg, dispVars, wpc,
                   closePc, fault, histVars, atReturn, mu, faGot>>

\* Send, lines 140-145: closed := ca.closed; ca.mu.RUnlock(); the return
\* of "agent is closed".
SendReadClosed(m) ==
    /\ Alive /\ sendPc[m] = "rlocked"
    /\ IF SendSeesClosed
       THEN /\ sendRes' = [sendRes EXCEPT ![m] = "agent is closed"]
            /\ sendPc' = [sendPc EXCEPT ![m] = "returned"]
       ELSE /\ sendRes' = [sendRes EXCEPT ![m] = "pending"]
            /\ sendPc' = [sendPc EXCEPT ![m] = "select"]
    /\ mu' = mu \ {Holder("Send", m, "r")}
    /\ UNCHANGED <<chanVars, closed, closeOnce, cancelled, wg, dispVars, wpc,
                   closePc, fault, histVars, atReturn, faGot>>

\* processMessages, lines 58-70: the select of the loop; on ctx.Done() the
\* dispatcher goes to ca.mu.Lock() (line 61).
DispSelectToLock ==
    /\ Alive /\ dpc = "select"
    /\ \E o \in SelectRecv :
        IF o = "ctx"
        THEN /\ dpc' = "ctxLock"
             /\ UNCHANGED <<input, dmsg>>
        ELSE IF Len(input) > 0
        THEN /\ dmsg' = Head(input)
             /\ input' = Tail(input)
             /\ dpc' = "checkClosed"
        ELSE /\ dpc' = "wait"
             /\ UNCHANGED <<input, dmsg>>
    /\ UNCHANGED <<capacity, output, errors, chClosed, closes, closed, closeOnce,
                   cancelled, wg, wpc, sendVars, closePc, fault, histVars,
                   atReturn, mu, faGot>>

\* Line 61: ca.mu.Lock().
DispCtxLock ==
    /\ Alive /\ dpc = "ctxLock" /\ CanLock
    /\ mu' = mu \cup {Holder("Dispatcher", Disp, "w")}
    /\ dpc' = "ctxLocked"
    /\ UNCHANGED <<chanVars, closed, closeOnce, cancelled, wg, dmsg, wpc,
                   sendVars, closePc, fault, histVars, atReturn, faGot>>

\* Lines 62-64: ca.closed = true; ca.mu.Unlock(); return.
DispCtxSetClosed ==
    /\ Alive /\ dpc = "ctxLocked"
    /\ closed' = TRUE
    /\ mu' = mu \ {Holder("Dispatcher", Disp, "w")}
    /\ dpc' = "wait"
    /\ UNCHANGED <<chanVars, closeOnce, cancelled, wg, dmsg, wpc, sendVars,
                   closePc, fault, histVars, atReturn, faGot>>

\* Line 73: ca.mu.RLock().
DispRLock ==
    /\ Alive /\ dpc = "checkClosed" /\ CanRLock
    /\ mu' = mu \cup {Holder("Dispatcher", Disp, "r")}
    /\ dpc' = "checkLocked"
    /\ UNCHANGED <<chanVars, closed, closeOnce, cancelled, wg, dmsg, wpc,
                   sendVars, closePc, fault, histVars, atReturn, faGot>>

\* Lines 74-78: closed := ca.closed; ca.mu.RUnlock(); return if closed.
DispReadClosed ==
    /\ Alive /\ dpc = "checkLocked"
    /\ IF closed
       THEN dpc' = "wait" /\ dmsg' = 0
       ELSE dpc' = "spawn" /\ UNCHANGED dmsg
    /\ mu' = mu \ {Holder("Dispatcher", Disp, "r")}
    /\ UNCHANGED <<chanVars, closed, closeOnce, cancelled, wg, wpc, sendVars,
                   closePc, fault, histVars, atReturn, faGot>>

\* Line 109: ca.mu.RLock().
WorkerRLock(m) ==
    /\ Alive /\ wpc[m] = "readClosed" /\ CanRLock
    /\ mu' = mu \cup {Holder("Worker", m, "r")}
    /\ wpc' = [wpc EXCEPT ![m] = "readLocked"]
    /\ UNCHANGED <<chanVars, closed, closeOnce, cancelled, wg, dispVars,
                   sendVars, closePc, fault, histVars, atReturn, faGot>>

\* Lines 110-113: closed := ca.closed; ca.mu.RUnlock(); if !closed.
WorkerReadLocked(m) ==
    /\ Alive /\ wpc[m] = "readLocked"
    /\ IF closed
       THEN Finish(m)
       ELSE wpc' = [wpc EXCEPT ![m] = "outSelect"] /\ UNCHANGED wg
    /\ Forget(m)
    /\ mu' = mu \ {Holder("Worker", m, "r")}
    /\ UNCHANGED <<chanVars, closed, closeOnce, cancelled, dispVars, sendVars,
                   closePc, fault, histVars, faGot>>

\* Close, line 180: ca.mu.Lock().
CloseLock(c) ==
    /\ Alive /\ closePc[c] = "setClosed" /\ CanLock
    /\ mu' = mu \cup {Holder("Close", c, "w")}
    /\ closePc' = [closePc EXCEPT ![c] = "setLocked"]
    /\ UNCHANGED <<chanVars, closed, closeOnce, cancelled, wg, dispVars, wpc,
                   sendVars, fault, histVars, atReturn, faGot>>

\* Lines 181-182: ca.closed = true; ca.mu.Unlock().
CloseWriteClosed(c) ==
    /\ Alive /\ closePc[c] = "setLocked"
    /\ closed' = TRUE
    /\ mu' = mu \ {Holder("Close", c, "w")}
    /\ closePc' = [closePc EXCEPT ![c] = "closeInput"]
    /\ UNCHANGED <<chanVars, closeOnce, cancelled, wg, dispVars, wpc, sendVars,
                   fault, histVars, atReturn, faGot>>

\* -------------------------------------------------------------- FastAgent
\* FastAgent.Send, lines 226-236, after agent.Send returned nil: the select
\* on agent.Output(), agent.Errors() and f.ctx.Done().  A receive is ready
\* when its channel buffers an item or is closed.
FaSelect ==
    (IF Len(output) > 0 \/ chClosed["output"] THEN {"output"} ELSE {})
    \cup (IF Len(errors) > 0 \/ chClosed["errors"] THEN {"errors"} ELSE {})
    \cup (IF cancelled THEN {"ctx"} ELSE {})

\* The caller of FastAgent.Send(agent, m) takes whatever case is ready: the
\* head of output (or the zero string of a closed output) with a nil error,
\* the head of errors (or the nil of a closed errors) wrapped in an error,
\* or the context's error.
FaAwait(m) ==
    /\ Alive /\ sendPc[m] = "returned" /\ sendRes[m] = "ok"
    /\ faGot[m] = FaPending
    /\ \E o \in FaSelect :
        /\ faGot' = [faGot EXCEPT ![m] =
                        CASE o = "output" ->
                               FaOk(IF Len(output) > 0 THEN Head(output)
                                    ELSE ZeroString)
                          [] o = "errors" -> FaErr("error from agent")
                          [] OTHER -> FaErr("context cancelled")]
        /\ output' = IF o = "output" /\ Len(output) > 0 THEN Tail(output)
                     ELSE output
        /\ errors' = IF o = "errors" /\ Len(errors) > 0 THEN Tail(errors)
                     ELSE errors
    /\ UNCHANGED <<capacity, input, chClosed, closes, closed, closeOnce,
                   cancelled, wg, dispVars, wpc, sendVars, closePc, fault,
                   histVars, atReturn, mu>>

\* FastAgent.Send, line 221: agent.Send(message) on an agent that Team has
\* constructed and started.
FaSendCall(m) == dpc # "idle" /\ SendCall(m)

\* FastAgent.Close, lines 258-261: f.cancel(), then agent.Close().
FaClose(c) == dpc # "idle" /\ cancelled /\ CloseCall(c)

\* --------------------------------------------------------- specifications
Dispatcher == DispSelect \/ DispCheckClosed \/ DispSpawn \/ DispWait

Worker(m) ==
    \/ WorkerCheckCtx(m) \/ WorkerRaSend(m) \/ WorkerGenerate(m)
    \/ WorkerErrSelect(m) \/ WorkerOutCheckCtx(m) \/ WorkerReadClosed(m)
    \/ WorkerOutSelect(m) \/ WorkerErrSelect2(m)

CloseSteps(c) ==
    \/ CloseCall(c) \/ CloseOnceReturn(c) \/ CloseSetClosed(c)
    \/ CloseInput(c) \/ CloseDone(c) \/ CloseSleep(c) \/ CloseErrors(c)
    \/ CloseOutput(c)

Next ==
    \/ Start \/ Cancel
    \/ \E m \in Msgs : SendCall(m) \/ SendSelect(m)
    \/ Dispatcher
    \/ \E m \in Msgs : Worker(m)
    \/ \E c \in CloseCallers : CloseSteps(c)
    \/ ConsumeOutput \/ ConsumeErrors

Spec == Init /\ [][Next]_vars

\* Shutdown by cancellation only: no caller ever calls Close, the dispatcher
\* runs the body of Close in its deferred call.
DispClose ==
    \/ CloseCall(Disp) \/ CloseSetClosed(Disp) \/ CloseInput(Disp)
    \/ CloseDone(Disp) \/ CloseSleep(Disp) \/ CloseErrors(Disp)
    \/ CloseOutput(Disp)

NextCancel ==
    \/ Start \/ Cancel
    \/ \E m \in Msgs : SendCall(m) \/ SendSelect(m)
    \/ Dispatcher
    \/ \E m \in Msgs : Worker(m)
    \/ DispClose
    \/ ConsumeOutput \/ ConsumeErrors

\* The Go scheduler runs every runnable goroutine, and every backend call
\* returns: each goroutine that can take a step eventually takes one.  No
\* caller is obliged to call Start, Send or cancel, nor to drain a channel.
FairCancel ==
    /\ WF_vars(Dispatcher)
    /\ WF_vars(DispClose)
    /\ \A m \in Msgs : WF_vars(Worker(m)) /\ WF_vars(SendSelect(m))

SpecCancel == Init /\ [][NextCancel]_vars /\ FairCancel

\* A running agent that is neither cancelled nor closed, built with a
\* capacity that holds every text sent and every result.  The dispatcher
\* never leaves its loop and no queue is ever full, so DispWait, the steps of
\* Close and WorkerErrSelect2 are never enabled and are left out.
InitRoomy == Init /\ capacity >= MaxMsgs

RunWorker(m) ==
    \/ WorkerCheckCtx(m) \/ WorkerRaSend(m) \/ WorkerGenerate(m)
    \/ WorkerErrSelect(m) \/ WorkerOutCheckCtx(m) \/ WorkerReadClosed(m)
    \/ WorkerOutSelect(m)

RunDispatcher == DispSelect \/ DispCheckClosed \/ DispSpawn

NextRun ==
    \/ Start
    \/ \E m \in Msgs : SendCall(m) \/ SendSelect(m)
    \/ RunDispatcher
    \/ \E m \in Msgs : RunWorker(m)
    \/ ConsumeOutput \/ ConsumeErrors

FairRun ==
    /\ WF_vars(RunDispatcher)
    /\ \A m \in Msgs : WF_vars(RunWorker(m)) /\ WF_vars(SendSelect(m))

SpecRun == InitRoomy /\ [][NextRun]_vars /\ FairRun

\* The tests' batch: one caller sends the texts one after the other, in the
\* order 1, 2, ..., to an agent as in SpecRun.
SendCallInOrder(m) ==
    /\ m > 1 => sendPc[m - 1] = "returned"
    /\ SendCall(m)

NextBatch ==
    \/ Start
    \/ \E m \in Msgs : SendCallInOrder(m) \/ SendSelect(m)
    \/ RunDispatcher
    \/ \E m \in Msgs : RunWorker(m)
    \/ ConsumeOutput \/ ConsumeErrors

SpecBatch == InitRoomy /\ [][NextBatch]_vars /\ FairRun

\* An agent whose caller does not drain: output is already full of the
\* response to an earlier text (Earlier) that nobody received, the buffer is
\* tight, and nobody cancels, closes or receives.
Earlier == 0

InitUndrained ==
    /\ capacity = 1
    /\ input = <<>> /\ output = <<Response(Earlier)>> /\ errors = <<>>
    /\ chClosed = [c \in Channels |-> FALSE]
    /\ closed = FALSE
    /\ closeOnce = "new"
    /\ cancelled = FALSE
    /\ wg = 0
    /\ dpc = "idle" /\ dmsg = 0
    /\ wpc = [m \in Msgs |-> "none"]
    /\ sendPc = [m \in Msgs |-> "idle"]
    /\ sendRes = [m \in Msgs |-> "none"]
    /\ closePc = [c \in CloseCallers |-> "idle"]
    /\ fault = "none"
    /\ closes = [c \in Channels |-> 0]
    /\ outSent = [m \in Msgs |-> 0]
    /\ errSent = [m \in Msgs |-> 0]
    /\ fullSent = 0
    /\ atReturn = [m \in Msgs |-> NotReturned]
    /\ mu = {}
    /\ faGot = [m \in Msgs |-> FaPending]

NextUndrained ==
    \/ Start
    \/ \E m \in Msgs : SendCall(m) \/ SendSelect(m)
    \/ RunDispatcher
    \/ \E m \in Msgs : Worker(m)

SpecUndrained == InitUndrained /\ [][NextUndrained]_vars

\* An agent that is constructed, used and closed before it is started:
\* Start is only called once a caller's Close has returned.  The dispatcher
\* then never reaches its spawn, so DispSpawn and the workers are left out.
StartAfterClose ==
    /\ \E c \in Closers : closePc[c] = "returned"
    /\ Start

NextIdle ==
    \/ StartAfterClose \/ Cancel
    \/ \E m \in Msgs : SendCall(m) \/ SendSelect(m)
    \/ DispSelect \/ DispCheckClosed \/ DispWait
    \/ \E c \in CloseCallers : CloseSteps(c)

SpecIdle == Init /\ [][NextIdle]_vars

\* The whole program under the scheduler's fairness: a call of Close that
\* has been made goes on, as every goroutine does; no caller has to call.
CloseRun(c) ==
    \/ CloseOnceReturn(c) \/ CloseSetClosed(c) \/ CloseInput(c)
    \/ CloseDone(c) \/ CloseSleep(c) \/ CloseErrors(c) \/ CloseOutput(c)

FairAll ==
    /\ WF_vars(Dispatcher)
    /\ WF_vars(CloseCall(Disp))
    /\ \A c \in CloseCallers : WF_vars(CloseRun(c))
    /\ \A m \in Msgs : WF_vars(Worker(m)) /\ WF_vars(SendSelect(m))

SpecFair == Init /\ [][Next]_vars /\ FairAll

\* The program with the sections of ca.mu in two steps each.  One caller
\* sends the texts one after the other to an agent whose queues hold every
\* text and every result, so no queue is ever full and WorkerErrSelect2 is
\* left out; the agent is cancelled and closed at any moment; nobody
\* receives from output and errors.
SendRLockInOrder(m) ==
    /\ m > 1 => sendPc[m - 1] = "returned"
    /\ SendRLock(m)

NextLocks ==
    \/ Start \/ Cancel
    \/ \E m \in Msgs : SendRLockInOrder(m) \/ SendReadClosed(m) \/ SendSelect(m)
    \/ DispSelectToLock \/ DispCtxLock \/ DispCtxSetClosed
    \/ DispRLock \/ DispReadClosed \/ DispSpawn \/ DispWait
    \/ \E m \in Msgs :
          \/ WorkerCheckCtx(m) \/ WorkerRaSend(m) \/ WorkerGenerate(m)
          \/ WorkerErrSelect(m) \/ WorkerOutCheckCtx(m)
          \/ WorkerRLock(m) \/ WorkerReadLocked(m) \/ WorkerOutSelect(m)
    \/ \E c \in CloseCallers :
          \/ CloseCall(c) \/ CloseOnceReturn(c) \/ CloseLock(c)
          \/ CloseWriteClosed(c) \/ CloseInput(c) \/ CloseDone(c)
          \/ CloseSleep(c) \/ CloseErrors(c) \/ CloseOutput(c)

SpecLocks == InitRoomy /\ [][NextLocks]_vars

\* The agent behind FastAgent: Team starts it, callers use FastAgent.Send
\* and receive from output and errors there, the signal handler or
\* FastAgent.Close cancels, FastAgent.Close closes.
NextFast ==
    \/ Start \/ Cancel
    \/ \E m \in Msgs : FaSendCall(m) \/ SendSelect(m) \/ FaAwait(m)
    \/ Dispatcher
    \/ \E m \in Msgs : Worker(m)
    \/ \E c \in Closers : FaClose(c)
    \/ CloseCall(Disp)
    \/ \E c \in CloseCallers : CloseRun(c)

SpecFast == Init /\ [][NextFast]_vars

\* ------------------------------------------------------------- properties
\* Workers spawned and not yet finished.
InFlight == {m \in Msgs : wpc[m] \notin {"none", "done"}}

AllClosed == closed /\ \A ch \in Channels : chClosed[ch]

\* C1: no Send that read closed = false sends on ca.input after it was
\* closed: the panic "send on closed channel" is unreachable in Send.
C1_NoSendOnClosedInput ==
    \A m \in Msgs : ~(sendPc[m] = "panicked" /\ chClosed["input"])

\* C2: no worker sends on ca.output or ca.errors after that channel was closed.
C2_NoWorkerSendOnClosed ==
    fault \notin {"send on closed channel: errors",
                  "send on closed channel: output"}

\* C3: in the step that closes ca.errors or ca.output, no worker is in flight.
C3_BarrierAtClose ==
    [][(\E ch \in {"errors", "output"} : ~chClosed[ch] /\ chClosed'[ch])
          => InFlight = {}]_vars

\* C4: however many Close calls are made, by callers and by the dispatcher,
\* each channel is closed at most once, no Close panics on a closed channel,
\* and once a Close call has returned each channel was closed exactly once.
C4_CloseIdempotent ==
    /\ \A ch \in Channels : closes[ch] <= 1
    /\ fault # "close of closed channel"
    /\ (\E c \in CloseCallers : closePc[c] = "returned")
          => \A ch \in Channels : closes[ch] = 1

\* A caller's Close entered Once.Do after or while the dispatcher, on
\* cancellation, ran the body; the body is over and nothing was closed twice.
C4_Witness ==
    /\ cancelled /\ closePc[Disp] = "returned"
    /\ closePc[1] = "onceWait" /\ closeOnce = "done"
    /\ \A ch \in Channels : closes[ch] = 1

\* C5: no text is appended to ca.input in a state where ca.closed is true.
C5_NoAdmissionWhenClosed ==
    [][Len(input') > Len(input) => ~closed]_vars

\* C6: a Send that reads closed = true returns "agent is closed" and leaves
\* the three queues and the flag as they are; closed is true once a Close
\* call has returned and once the dispatcher has left its loop on
\* cancellation, so every Send entered from then on fails.
C6_ClosedSendFails ==
    /\ []((\E c \in CloseCallers : closePc[c] = "returned") => closed)
    /\ [](dpc \in {"wait", "close"} => closed)
    /\ [][\A m \in Msgs :
            (sendPc[m] = "idle" /\ sendPc'[m] # "idle" /\ closed)
               => /\ sendRes'[m] = "agent is closed"
                  /\ sendPc'[m] = "returned"
                  /\ UNCHANGED <<input, output, errors, closed>>]_vars

\* A Send entered after a caller's Close had returned was refused.
C6_Witness ==
    /\ closePc[1] = "returned"
    /\ \E m \in Msgs : sendRes[m] = "agent is closed" /\ wpc[m] = "none"

\* C7: the select of Send always ends the call, with success and the text
\* appended when input holds fewer texts than its capacity, and with "input
\* channel full" and input unchanged when it is full; the call has no other
\* outcome than these and "agent is closed".
C7_SendOutcomes ==
    [][\A m \in Msgs :
         (sendPc[m] = "select" /\ sendPc'[m] # "select")
            => /\ sendPc'[m] = "returned"
               /\ IF Len(input) < capacity
                  THEN sendRes'[m] = "ok" /\ input' = Append(input, m)
                  ELSE sendRes'[m] = "input channel full" /\ input' = input]_vars

\* C8: once ctx is cancelled on a started agent with a request in flight,
\* eventually closed is true and all four channels are closed, without a
\* caller's Close.
C8_CancelLeadsToShutdown ==
    (cancelled /\ dpc # "idle" /\ InFlight # {}) ~> AllClosed

\* C9: on a running agent, neither cancelled nor closed, whose queues hold
\* every request, every Send succeeds, and every accepted text eventually
\* has exactly one item placed for it on output or errors, never more, and
\* no delivery is replaced by "output channel full".
C9_Completeness ==
    /\ [](\A m \in Msgs : sendRes[m] \in {"none", "pending", "ok"})
    /\ [](fullSent = 0 /\ \A m \in Msgs : outSent[m] + errSent[m] <= 1)
    /\ \A m \in Msgs :
          (sendRes[m] = "ok" /\ dpc # "idle") ~> (outSent[m] + errSent[m] = 1)

\* All texts were sent while none had been dequeued, and each got its item.
C9_Witness ==
    /\ \A m \in Msgs : sendRes[m] = "ok" /\ outSent[m] + errSent[m] = 1
    /\ \E m \in Msgs : errSent[m] = 1
    /\ \E m \in Msgs : outSent[m] = 1

\* C10: a worker whose backend call failed, on an agent neither cancelled nor
\* closed and with room in errors, appends exactly the error of its request
\* to errors and nothing to output; no request ever gets a second error or
\* both an error and a response.
C10_ErrorDelivery ==
    /\ [](\A m \in Msgs : errSent[m] <= 1 /\ (errSent[m] = 1 => outSent[m] = 0))
    /\ [][\A m \in Msgs :
            (/\ wpc[m] = "errSelect" /\ wpc'[m] # "errSelect"
             /\ ~cancelled /\ ~closed /\ Len(errors) < capacity)
               => /\ errors' = Append(errors, BackendError(m))
                  /\ output' = output
                  /\ errSent'[m] = 1 /\ outSent'[m] = 0]_vars

\* The error of a failed request sits on errors, output is empty.
C10_Witness ==
    \E m \in Msgs :
        /\ wpc[m] = "done" /\ errSent[m] = 1 /\ outSent[m] = 0
        /\ ~cancelled /\ ~closed
        /\ errors = <<BackendError(m)>> /\ output = <<>>

\* The texts that input buffers.
Buffered == {input[i] : i \in 1..Len(input)}

\* Idle, Running, Draining, Closed as 0..3.
Phase ==
    IF AllClosed THEN 3
    ELSE IF closed THEN 2
    ELSE IF dpc # "idle" THEN 1 ELSE 0

\* C11: a worker whose backend call succeeded, on an agent neither cancelled
\* nor closed and with room in output, passes both checks and appends the
\* backend's response to its own text to output, and nothing to errors; no
\* request ever gets a second response or a response and an error.
C11_RoundTrip ==
    /\ [](\A m \in Msgs : outSent[m] <= 1 /\ (outSent[m] = 1 => errSent[m] = 0))
    /\ [][\A m \in Msgs :
            /\ (wpc[m] = "outCheckCtx" /\ wpc'[m] # wpc[m] /\ ~cancelled)
                  => wpc'[m] = "readClosed"
            /\ (wpc[m] = "readClosed" /\ wpc'[m] # wpc[m] /\ ~closed)
                  => wpc'[m] = "outSelect"
            /\ (/\ wpc[m] = "outSelect" /\ wpc'[m] # wpc[m]
                /\ ~cancelled /\ ~closed /\ Len(output) < capacity)
                  => /\ output' = Append(output, [kind |-> "response", of |-> m])
                     /\ errors' = errors
                     /\ outSent'[m] = 1 /\ errSent'[m] = 0
                     /\ fullSent' = fullSent]_vars

\* The response to a text sits on output, errors is empty.
C11_Witness ==
    \E m \in Msgs :
        /\ wpc[m] = "done" /\ outSent[m] = 1 /\ errSent[m] = 0
        /\ ~cancelled /\ ~closed
        /\ output = <<[kind |-> "response", of |-> m]>> /\ errors = <<>>

\* C12: for a batch sent in order to a running agent (no cancellation, no
\* Close, no full queue), whatever is appended to output is the response to
\* the text of the worker that appends it, once per text, and every text
\* whose backend call succeeded eventually has its response placed; the
\* order on output is free.
C12_MultisetDelivery ==
    /\ [][\A m \in Msgs :
            outSent'[m] # outSent[m]
               => /\ outSent[m] = 0 /\ outSent'[m] = 1
                  /\ output' = Append(output, [kind |-> "response", of |-> m])]_vars
    /\ [][output' = output \/ (output # <<>> /\ output' = Tail(output))
            \/ \E m \in Msgs : outSent'[m] # outSent[m]]_vars
    /\ \A m \in Msgs : (wpc[m] = "outCheckCtx") ~> (outSent[m] = 1)

\* Text 1 was sent and accepted before text 2, and output holds the response
\* to text 2 ahead of the response to text 1.
C12_Witness ==
    /\ MaxMsgs >= 2
    /\ output = <<[kind |-> "response", of |-> 2], [kind |-> "response", of |-> 1]>>

C14_ClosedIsTerminal ==
    [][/\ closed => closed'
       /\ \A ch \in Channels : chClosed[ch] => chClosed'[ch]
       /\ chClosed["input"] => Len(input') <= Len(input)
       /\ chClosed["output"] => Len(output') <= Len(output)
       /\ chClosed["errors"] => Len(errors') <= Len(errors)
       /\ Phase' >= Phase]_vars

\* A Closed agent on which Start, Send and Close have been called and whose
\* output still buffers a response.
C14_Witness ==
    /\ AllClosed /\ dpc # "idle" /\ closePc[1] = "returned"
    /\ Len(output) > 0
    /\ \E m \in Msgs : sendRes[m] = "agent is closed"

\* C15: every call of Close that has been made eventually returns.
C15_CloseReturns ==
    \A c \in CloseCallers :
        (closePc[c] \notin {"idle", "returned"}) ~> (closePc[c] = "returned")

\* C16: every accepted text is eventually dequeued by the dispatcher; so when
\* processMessages has returned, after which nobody receives from input, no
\* text whose Send returned nil is still buffered in input.
C16_DequeuedWhenDispatcherEnds ==
    (dpc = "close" /\ closePc[Disp] = "returned")
       => \A m \in Msgs : sendRes[m] = "ok" => m \notin Buffered

\* C17: errors or output closed implies done closed, which implies input
\* closed, which implies closed = true: the body of Close sets the flag,
\* then closes input, then done, then errors and output.
C17_ShutdownOrder ==
    /\ (chClosed["errors"] \/ chClosed["output"]) => chClosed["done"]
    /\ chClosed["done"] => chClosed["input"]
    /\ chClosed["input"] => closed

\* Close has closed input, done and errors and is about to close output.
C17_Witness ==
    /\ chClosed["errors"] /\ ~chClosed["output"]
    /\ \E c \in CloseCallers : closePc[c] = "closeOutput"

\* C18: when only cancellation shuts the agent down, the dispatcher has set
\* closed when it leaves its loop, and no channel is closed, nor is any ever
\* found closed, while a worker is in flight.
C18_CancelOnlyBarrier ==
    /\ [](dpc \in {"wait", "close"} => closed)
    /\ [](\A ch \in Channels : chClosed[ch] => InFlight = {})
    /\ [][(\E ch \in Channels : ~chClosed[ch] /\ chClosed'[ch])
             => (InFlight = {} /\ wg = 0 /\ closed)]_vars

\* Cancellation alone has closed everything after the workers finished.
C18_Witness ==
    /\ cancelled /\ AllClosed /\ closePc[Disp] = "returned"
    /\ \A m \in Msgs : wpc[m] = "done"

\* C19: a worker whose call of ra.Send returned after ctx was cancelled
\* places nothing on output and nothing on errors.
C19_NoDeliveryAfterCancel ==
    [][\A m \in Msgs :
         (atReturn[m].returned /\ atReturn[m].cancelled)
            => (outSent'[m] = outSent[m] /\ errSent'[m] = errSent[m])]_vars

\* C20: a worker for which closed was already true when ra.Send returned
\* (so that a check before its send finds it true) sends nothing: no
\* response, no backend error, no secondary error.
C20_ClosedWorkerSendsNothing ==
    [][\A m \in Msgs :
         (atReturn[m].returned /\ atReturn[m].closed)
            => /\ outSent'[m] = outSent[m] /\ errSent'[m] = errSent[m]
               /\ wpc[m] = "errSelect2" => fullSent' = fullSent]_vars

\* The worker goroutine's positions in program order (lines 82-130).
WorkerRank(pc) ==
    CASE pc = "none" -> 0
      [] pc = "checkCtx" -> 1
      [] pc = "raSend" -> 2
      [] pc = "generate" -> 3
      [] pc \in {"errSelect", "outCheckCtx"} -> 4
      [] pc = "readClosed" -> 5
      [] pc = "outSelect" -> 6
      [] pc = "errSelect2" -> 7
      [] OTHER -> 8

\* f[1] + ... + f[n].
RECURSIVE SumTo(_, _)
SumTo(f, n) == IF n = 0 THEN 0 ELSE f[n] + SumTo(f, n - 1)

\* Items placed on output and errors so far.
Delivered == SumTo(outSent, MaxMsgs) + SumTo(errSent, MaxMsgs) + fullSent

\* The dispatcher is inside its for loop.
InLoop == dpc \in {"select", "checkClosed", "spawn"}

\* processMessages has returned, its deferred calls included.
DispatcherEnded == dpc = "close" /\ closePc[Disp] = "returned"

\* C21, as stated: the call of llm.Generate is never made in a state where
\* ctx is cancelled, and a worker that finds ctx cancelled at its check
\* before processing ends without a backend call and without a delivery.
C21_NoBackendAfterCancel ==
    /\ [][\A m \in Msgs :
            (wpc[m] = "generate" /\ wpc'[m] # "generate") => ~cancelled]_vars
    /\ [][\A m \in Msgs :
            (wpc[m] = "checkCtx" /\ cancelled /\ wpc'[m] # wpc[m])
               => /\ wpc'[m] = "done"
                  /\ output' = output /\ errors' = errors
                  /\ UNCHANGED histVars]_vars

\* C21: a worker that has observed the cancellation makes no backend call: a
\* worker reaches the call of llm.Generate only from the check of ra.Send
\* and only if that check found ctx not cancelled (ctx may be cancelled after
\* the check and before the call), and a worker that finds ctx cancelled at
\* its own check before processing ends without a backend call and without
\* a delivery.
C21_NoBackendAfterObservedCancel ==
    /\ [][\A m \in Msgs :
            (wpc[m] # "generate" /\ wpc'[m] = "generate")
               => (wpc[m] = "raSend" /\ ~cancelled)]_vars
    /\ [][\A m \in Msgs :
            (wpc[m] = "checkCtx" /\ cancelled /\ wpc'[m] # wpc[m])
               => /\ wpc'[m] = "done"
                  /\ output' = output /\ errors' = errors
                  /\ UNCHANGED histVars]_vars

\* One worker has ended at its check before processing, with nothing
\* delivered, and another, whose checks passed before the cancellation, is
\* at its backend call.
C21_Witness ==
    /\ cancelled /\ output = <<>> /\ errors = <<>> /\ Delivered = 0
    /\ \E m \in Msgs : wpc[m] = "done"
    /\ \E m \in Msgs : wpc[m] = "generate"

\* C22: in a state where ctx is cancelled the dispatcher spawns no worker.
C22_NoSpawnAfterCancel ==
    [][cancelled => \A m \in Msgs : wpc[m] = "none" => wpc'[m] = "none"]_vars

\* C23: a dispatcher that holds a dequeued message and reads closed = true
\* drops it, spawns nothing, leaves wg as it is and leaves its loop; closed
\* stays true between the dequeue and the check, so a message dequeued when
\* closed was already true is never spawned; and workers are spawned by the
\* spawn step only.
C23_DispatcherRecheck ==
    /\ [][(dpc = "checkClosed" /\ closed)
            => /\ closed'
               /\ \/ (dpc' = "checkClosed" /\ dmsg' = dmsg)
                  \/ (dpc' = "wait" /\ dmsg' = 0 /\ wg' = wg /\ wpc' = wpc)]_vars
    /\ [][(dpc = "select" /\ closed /\ dpc' = "checkClosed") => closed']_vars
    /\ [][\A m \in Msgs :
            (wpc[m] = "none" /\ wpc'[m] # "none")
               => (dpc = "spawn" /\ dmsg = m /\ wg' = wg + 1)]_vars

\* An accepted text was dequeued and dropped by a dispatcher that found the
\* agent closed, without cancellation: it has no worker and never will.
C23_Witness ==
    /\ closed /\ ~cancelled /\ dpc \in {"wait", "close"}
    /\ \E m \in Msgs :
          /\ sendRes[m] = "ok" /\ m \notin Buffered
          /\ wpc[m] = "none" /\ dmsg # m

\* C24: on an agent neither cancelled nor closed, a worker whose send finds
\* output full leaves output as it is and goes to the inner select, which
\* ends the worker: with room in errors it appends exactly one "output
\* channel full" error, without room it changes neither queue.
C24_OutputFull ==
    /\ [][\A m \in Msgs :
            (/\ wpc[m] = "outSelect" /\ wpc'[m] # wpc[m]
             /\ ~cancelled /\ ~closed /\ Len(output) >= capacity)
               => /\ wpc'[m] = "errSelect2"
                  /\ output' = output /\ errors' = errors
                  /\ UNCHANGED histVars]_vars
    /\ [][\A m \in Msgs :
            (/\ wpc[m] = "errSelect2" /\ wpc'[m] # wpc[m]
             /\ ~cancelled /\ ~closed)
               => /\ wpc'[m] = "done"
                  /\ output' = output /\ outSent' = outSent /\ errSent' = errSent
                  /\ IF Len(errors) < capacity
                     THEN /\ errors' = Append(errors,
                                 [kind |-> "output channel full", of |-> 0])
                          /\ fullSent' = fullSent + 1
                     ELSE errors' = errors /\ fullSent' = fullSent]_vars

\* One worker has put "output channel full" on errors, and another finds
\* output full and is at the inner select with errors full as well.
C24_Witness ==
    /\ ~cancelled /\ ~closed /\ fullSent = 1
    /\ Len(output) = capacity /\ Len(errors) = capacity
    /\ \E m \in Msgs : wpc[m] = "errSelect2"

\* C25: whether or not anybody receives from output and errors, every worker
\* whose backend call has returned eventually ends, and after cancellation
\* of a started agent all four channels are eventually closed.
C25_NoStall ==
    /\ \A m \in Msgs :
          (wpc[m] \in {"errSelect", "outCheckCtx", "readClosed", "outSelect",
                       "errSelect2"}) ~> (wpc[m] = "done")
    /\ (cancelled /\ dpc # "idle") ~> AllClosed

\* C26: a worker only moves forwards through its code, so it makes at most
\* one backend call; at most one response or backend error is placed per
\* text, an "output channel full" error only by a worker that placed
\* neither, and never more items in total than texts accepted by Send.
C26_AtMostOnce ==
    /\ [](\A m \in Msgs : outSent[m] + errSent[m] <= 1)
    /\ [](Delivered <= Cardinality({m \in Msgs : sendRes[m] = "ok"}))
    /\ [][\A m \in Msgs : WorkerRank(wpc'[m]) >= WorkerRank(wpc[m])]_vars
    /\ [][fullSent' # fullSent
            => /\ fullSent' = fullSent + 1
               /\ \E m \in Msgs :
                     /\ wpc[m] = "errSelect2" /\ wpc'[m] = "done"
                     /\ outSent[m] = 0 /\ errSent[m] = 0]_vars

\* Every text was accepted and every worker has ended, one of them with a
\* backend error and no second attempt.
C26_Witness ==
    /\ \A m \in Msgs : sendRes[m] = "ok" /\ wpc[m] = "done"
    /\ \E m \in Msgs : errSent[m] = 1 /\ outSent[m] = 0
    /\ Delivered <= MaxMsgs

\* C27: wg is the number of workers spawned and not ended; it goes up by one
\* in the step that spawns a worker and down by one in the step that ends
\* one, whatever the path, and in no other step.
C27_InFlightCounter ==
    /\ [](wg \in Nat /\ wg = Cardinality(InFlight))
    /\ [][wg' > wg
            => /\ wg' = wg + 1
               /\ \E m \in Msgs : wpc[m] = "none" /\ wpc'[m] = "checkCtx"]_vars
    /\ [][\A m \in Msgs :
            (wpc[m] # "done" /\ wpc'[m] = "done") => wg' = wg - 1]_vars
    /\ [][wg' < wg
            => /\ wg' = wg - 1
               /\ Cardinality({m \in Msgs : wpc[m] # "done" /\ wpc'[m] = "done"})
                     = 1]_vars

\* One worker has ended and another is in flight.
C27_Witness ==
    /\ wg = 1
    /\ \E m \in Msgs : wpc[m] = "done"
    /\ \E m \in Msgs : wpc[m] \in {"raSend", "generate"}

\* C28: every step that appends to output or errors, or that makes a worker
\* call the backend, leaves the dispatcher where it is, and whenever the
\* dispatcher is at its select and input holds a text the dequeue can be
\* taken, whatever the workers are doing.
C28_DispatcherIsolation ==
    /\ [][(\/ Len(output') > Len(output)
           \/ Len(errors') > Len(errors)
           \/ \E m \in Msgs : wpc[m] # wpc'[m] /\ wpc[m] \in {"raSend", "generate"})
             => (dpc' = dpc /\ dmsg' = dmsg)]_vars
    /\ [](dpc = "select" /\ Len(input) > 0 => ENABLED DispSelect)

\* Text 1 was sent before text 2 and its worker is still at the backend
\* call; the response to text 2 is already on output.
C28_Witness ==
    /\ MaxMsgs >= 2
    /\ wpc[1] = "generate"
    /\ outSent[2] = 1 /\ output = <<[kind |-> "response", of |-> 2]>>

\* C29: once input is closed while the dispatcher is in its loop (so by a
\* caller's Close), the dispatcher eventually leaves the loop and eventually
\* processMessages returns.
C29_DispatcherTerminates ==
    /\ (chClosed["input"] /\ InLoop) ~> (dpc \in {"wait", "close"})
    /\ (chClosed["input"] /\ InLoop) ~> DispatcherEnded

\* C30: whenever a call of Close has returned, closed is true and the four
\* channels are closed, whichever caller ran the body.
C30_CloseReturnsClosed ==
    \A c \in CloseCallers : closePc[c] = "returned" => AllClosed

\* The caller's and the dispatcher's Close have both returned; one of them
\* did not run the body.
C30_Witness ==
    /\ \A c \in CloseCallers : closePc[c] = "returned"
    /\ AllClosed /\ \A ch \in Channels : closes[ch] = 1

\* The goroutines that wait for another one: the dispatcher in wg.Wait()
\* with workers in flight, and a caller of Close inside Once.Do while
\* another caller runs the body.
WaitsForWorkers == dpc = "wait" /\ wg > 0
WaitsForOnce(c) == closePc[c] = "onceWait" /\ closeOnce # "done"
RunsBody(c) ==
    closePc[c] \in {"setClosed", "closeInput", "closeDone", "sleep",
                    "closeErrors", "closeOutput"}

\* C31: in every state of a live process, a dispatcher that waits for its
\* workers has a worker that can take a step, and a caller that waits on the
\* guard of Close has the caller that runs the body able to take a step;
\* Send and the workers wait for nobody.  So no set of goroutines waits on
\* one another.
C31_DeadlockFree ==
    Alive =>
      /\ WaitsForWorkers => \E m \in InFlight : ENABLED Worker(m)
      /\ \A c \in CloseCallers :
            WaitsForOnce(c)
               => \E b \in CloseCallers : RunsBody(b) /\ ENABLED CloseRun(b)
      /\ \A m \in Msgs : sendPc[m] = "select" => ENABLED SendSelect(m)
      /\ \A m \in InFlight : ENABLED Worker(m)

\* The dispatcher, after waiting for its workers, waits on the guard of
\* Close while a caller's Close sleeps inside the body, and a Send is at its
\* select.
C31_Witness ==
    /\ Alive /\ WaitsForOnce(Disp)
    /\ \E c \in Closers : closePc[c] = "sleep"
    /\ \E m \in Msgs : wpc[m] = "done"
    /\ \E m \in Msgs : sendPc[m] = "select"

C35_IdleAgent ==
    /\ [][\A m \in Msgs :
            (/\ dpc = "idle" /\ ~chClosed["input"]
             /\ sendPc[m] = "select" /\ sendPc'[m] # "select")
               => IF Len(input) < capacity
                  THEN input' = Append(input, m) /\ sendRes'[m] = "ok"
                  ELSE input' = input /\ sendRes'[m] = "input channel full"]_vars
    /\ []((dpc = "idle" /\ \E c \in Closers : closePc[c] = "returned")
             => AllClosed)
    /\ [](dpc # "idle" =>
             /\ AllClosed
             /\ dpc # "spawn" /\ wg = 0
             /\ \A m \in Msgs : wpc[m] = "none")
    /\ [](/\ \A ch \in Channels : closes[ch] <= 1
          /\ fault # "close of closed channel")

\* Texts were accepted by the idle agent up to its capacity, Close was
\* called, the agent was started, and processMessages has returned, its
\* deferred Close included, with a text dropped, one left in input and no
\* worker.
C35_Witness ==
    /\ DispatcherEnded /\ ~cancelled
    /\ Len(input) > 0 /\ \A ch \in Channels : closes[ch] = 1
    /\ \A m \in Msgs : sendRes[m] = "ok" /\ wpc[m] = "none"

\* C34: a FastAgent.Send(agent, m) that has returned a nil error has
\* returned the response to m that a worker placed on output.
C34_FastSendOwnResponse ==
    \A m \in Msgs :
        faGot[m].err = "nil"
           => (outSent[m] = 1 /\ faGot[m].response = [kind |-> "response", of |-> m])

\* Task who/id holds ca.mu.
Holds(who, id) == \E h \in mu : h.who = who /\ h.id = id

\* C32: whoever holds ca.mu is between its Lock (RLock) and its one read or
\* write of closed, the only place where closed is read or written: a Send
\* at its select or returned, a dispatcher at its select, spawn or wg.Wait,
\* a worker at the backend call or at a send, and a Close that closes a
\* channel, sleeps or waits on the guard, hold nothing; a writer holds the
\* mutex alone, and closed changes only in a step of a writer.
C32_LockDiscipline ==
    /\ [](/\ \A m \in Msgs : Holds("Send", m) => sendPc[m] = "rlocked"
          /\ \A m \in Msgs : Holds("Worker", m) => wpc[m] = "readLocked"
          /\ Holds("Dispatcher", Disp) => dpc \in {"ctxLocked", "checkLocked"}
          /\ \A c \in CloseCallers : Holds("Close", c) => closePc[c] = "setLocked"
          /\ \A h \in mu : h.mode = "w" => mu = {h})
    /\ [][closed' # closed => \E h \in mu : h.mode = "w"]_vars

\* A Send and a worker hold the read lock together while a Close, inside
\* the guard, waits for the write lock.
C32_Witness ==
    /\ \E m \in Msgs : Holds("Send", m)
    /\ \E m \in Msgs : Holds("Worker", m)
    /\ \E c \in CloseCallers : closePc[c] = "setClosed"

====
